---- MODULE Spec2Model ----
(***************************************************************************)
(* State machine of src/App.tsx: the App component's React state, its      *)
(* refs, the asynchronous handleStartCall invocations and the live         *)
(* sessions' callbacks (onopen, onmessage, onerror, onclose), with the     *)
(* browser as the environment (getUserMedia, the channel, the output       *)
(* device's clock, the 'ended' events of playback sources).                *)
(*                                                                         *)
(* Call k is the k-th invocation of handleStartCall; the stream, the       *)
(* output context and the session it creates, and the input context, the   *)
(* processor and the frame timer its onopen creates, are all named k.  A   *)
(* ref holds 0 (null) or the call whose resource it points to.             *)
(*                                                                         *)
(* A state setter is modelled as the assignment it requests, also after     *)
(* the component has unmounted.  session.close() is counted as a release    *)
(* of the session when cleanUp registers it on the session promise.        *)
(*                                                                         *)
(* pendingDecode[i].cut, schedLog, dropped and ev record history for the   *)
(* properties below; no action's guard or effect on the program's state    *)
(* reads them.                                                             *)
(*                                                                         *)
(* Time is counted in sample frames of the 24000 Hz output context, so a   *)
(* decoded buffer's duration is its frame count.                           *)
(***************************************************************************)
EXTENDS Integers, Sequences, FiniteSets, TLC

\* ------------------------------------------------------------- bounds
MaxCalls == 3      \* invocations of handleStartCall (SpecLife)
MaxPlayCalls == 1  \* invocations of handleStartCall (SpecPlay)
MaxTextCalls == 1  \* invocations of handleStartCall (SpecText)
MaxChunks == 2     \* inbound messages that carry audio
MaxClock == 2      \* ticks of an output context's clock
MaxText == 5       \* characters in a pending transcription buffer
MaxTurns == 2      \* turns in the history (one turnComplete gives two)
MaxCarryCalls == 2 \* invocations of handleStartCall (SpecCarry)
SubSteps == 2      \* sample values between two neighbouring 16-bit levels
MaxBytes == 3      \* bytes in a sequence given to encode
MaxSendCalls == 2  \* invocations of handleStartCall (SpecSend)
MaxFrames == 2     \* audio blocks, and video frames, captured

NumChannels == 1          \* decodeAudioData(..., 24000, 1)
BytesPerSample == 2       \* Int16Array.BYTES_PER_ELEMENT
FullScale == 32768        \* data[i] * 32768, dataInt16[...] / 32768.0
Pad == 64                 \* the base64 symbol '=' (0..63 are the alphabet's indices)

Calls == 1..MaxCalls
Kinds == {"stream", "outputCtx", "session", "inputCtx", "processor", "interval"}

Max(a, b) == IF a >= b THEN a ELSE b

VARIABLES
  isConnecting, isCallActive,            \* useState
  transcripts, currentInputTranscription, currentOutputTranscription,
  localStreamRef, sessionPromiseRef, inputAudioContextRef,
  outputAudioContextRef, scriptProcessorRef, frameIntervalRef,
  audioSourcesRef, nextStartTimeRef,     \* useRef
  mounted,          \* the component is mounted (localVideoRef.current is set)
  calls,            \* handleStartCall invocations so far
  pc,               \* pc[k]: where invocation k of handleStartCall is
  chan,             \* chan[k]: the channel of session k
  closureInput, closureOutput,  \* the transcription state captured by call k's closures
  acquired, released,           \* resources created / times each was released
  raised,           \* some cleanUp threw
  alerts,           \* alert() calls so far
  alerting,         \* a handler is between its alert() and its cleanUp()
  clock,            \* clock[k]: currentTime of call k's output context
  chunks,           \* audio-carrying messages handled so far
  pendingDecode,    \* onmessage handlers suspended at `await decodeAudioData`
  schedLog,         \* sources started since the cursor was last reset
  dropped,          \* chunks whose decode was rejected
  srcLife,          \* srcLife[id]: how far chunk id and its source have got
  resolved,         \* sessions whose connect promise has resolved
  reactions,        \* reactions[k]: .then callbacks waiting on session promise k
  sessionLog,       \* sessionLog[k]: the calls made on session k, in order
  inflight,         \* video frames between their timer tick and their send
  captured,         \* blocks and frames captured so far, per producer
  sendRaised,       \* a producer's callback threw
  codec,            \* the input and the output of a codec round trip
  ev                \* the handler that ran last

stateVars == <<isConnecting, isCallActive>>
textVars == <<transcripts, currentInputTranscription, currentOutputTranscription>>
refVars == <<localStreamRef, sessionPromiseRef, inputAudioContextRef,
             outputAudioContextRef, scriptProcessorRef, frameIntervalRef>>
playVars == <<audioSourcesRef, nextStartTimeRef, pendingDecode, schedLog, chunks, dropped,
             srcLife>>
callVars == <<calls, pc, chan, closureInput, closureOutput>>
resVars == <<acquired, released, raised>>
promiseVars == <<reactions, sessionLog>>
prodVars == <<resolved, inflight, captured, sendRaised>>
vars == <<stateVars, textVars, refVars, playVars, callVars, resVars,
          promiseVars, prodVars, codec, mounted, alerts, alerting, clock, ev>>

Message(input, output, turnComplete, audio, interrupted) ==
  [input |-> input, output |-> output, turnComplete |-> turnComplete,
   audio |-> audio, interrupted |-> interrupted]

NoMessage == Message("", "", FALSE, 0, FALSE)

\* ev: the handler that ran last, the call or session it belongs to, the
\* audio chunk it handled (0: none) and the message it was given.
MessageEvent(op, k, id, m) == [op |-> op, call |-> k, id |-> id, msg |-> m]
ChunkEvent(op, k, id) == MessageEvent(op, k, id, NoMessage)
Event(op, k) == ChunkEvent(op, k, 0)

\* The ref through which cleanUp reaches a resource of each kind.
Ref(kind) ==
  CASE kind = "stream" -> localStreamRef
    [] kind = "outputCtx" -> outputAudioContextRef
    [] kind = "session" -> sessionPromiseRef
    [] kind = "inputCtx" -> inputAudioContextRef
    [] kind = "processor" -> scriptProcessorRef
    [] kind = "interval" -> frameIntervalRef

\* The component after its first render.
InitApp ==
  /\ isConnecting = FALSE /\ isCallActive = FALSE
  /\ transcripts = <<>>
  /\ currentInputTranscription = "" /\ currentOutputTranscription = ""
  /\ localStreamRef = 0 /\ sessionPromiseRef = 0 /\ inputAudioContextRef = 0
  /\ outputAudioContextRef = 0 /\ scriptProcessorRef = 0 /\ frameIntervalRef = 0
  /\ audioSourcesRef = {} /\ nextStartTimeRef = 0
  /\ mounted = TRUE
  /\ calls = 0
  /\ pc = [k \in Calls |-> "new"]
  /\ chan = [k \in Calls |-> "none"]
  /\ closureInput = [k \in Calls |-> ""]
  /\ closureOutput = [k \in Calls |-> ""]
  /\ acquired = {}
  /\ released = [r \in Kinds \X Calls |-> 0]
  /\ raised = FALSE
  /\ alerts = 0
  /\ alerting = "none"
  /\ clock = [k \in Calls |-> 0]
  /\ chunks = 0
  /\ pendingDecode = <<>>
  /\ schedLog = <<>>
  /\ dropped = {}
  /\ srcLife = [i \in 1..MaxChunks |-> "none"]
  /\ resolved = {}
  /\ reactions = [k \in Calls |-> <<>>]
  /\ sessionLog = [k \in Calls |-> <<>>]
  /\ inflight = {}
  /\ captured = [audio |-> 0, video |-> 0]
  /\ sendRaised = FALSE
  /\ ev = Event("init", 0)

\* What a codec round trip is given and what it gives back.
CodecRun(kind, data, bytes) ==
  [kind |-> kind, data |-> data, bytes |-> bytes, channelData |-> <<>>, back |-> <<>>,
   ran |-> FALSE]

Init == InitApp /\ codec = CodecRun("none", <<>>, <<>>)

\* ------------------------------------------------------- the event loop
\* alert() blocks the page: nothing runs between it and the next statement.
NotAlerting == alerting = "none"

\* A task (a click, a timer, a websocket event, a clock update) starts only
\* when no continuation is queued: the continuation of an await on a settled
\* promise runs in the microtask checkpoint of the task that awaited, and
\* only other promise reactions can run before it.
TaskBoundary == NotAlerting /\ pendingDecode = <<>>

\* ------------------------------------------------- the session promise
\* promise.then(callback): the callback runs at once (in the microtasks of the
\* running task) when promise k has resolved, and waits for it otherwise.
Then(k, callback) ==
  IF k \in resolved
  THEN [reactions |-> reactions, sessionLog |-> [sessionLog EXCEPT ![k] = Append(@, callback)]]
  ELSE [reactions |-> [reactions EXCEPT ![k] = Append(@, callback)], sessionLog |-> sessionLog]

CloseOp == [op |-> "close", kind |-> "none", call |-> 0, n |-> 0]

\* ------------------------------------------------------------- cleanUp
\* sources.forEach(source => source.stop()): lines 190 and 299.
StopAll(life, sources) ==
  [i \in DOMAIN life |-> IF \E s \in sources : s.id = i THEN "done" ELSE life[i]]

\* source.stop() throws InvalidStateError on a source that was never started.
StopRaises == \E s \in audioSourcesRef : ~s.started

ReleasedByCleanUp ==
  [r \in Kinds \X Calls |-> released[r] + (IF Ref(r[1]) = r[2] THEN 1 ELSE 0)]

CleanUp ==
  /\ reactions' = IF sessionPromiseRef # 0 THEN Then(sessionPromiseRef, CloseOp).reactions
                  ELSE reactions
  /\ sessionLog' = IF sessionPromiseRef # 0 THEN Then(sessionPromiseRef, CloseOp).sessionLog
                   ELSE sessionLog
  /\ sessionPromiseRef' = 0
  /\ localStreamRef' = 0
  /\ frameIntervalRef' = 0
  /\ scriptProcessorRef' = 0
  /\ inputAudioContextRef' = 0
  /\ outputAudioContextRef' = 0
  /\ released' = ReleasedByCleanUp
  /\ raised' = (raised \/ StopRaises)
  /\ audioSourcesRef' = {}
  /\ nextStartTimeRef' = 0
  /\ schedLog' = <<>>
  /\ srcLife' = StopAll(srcLife, audioSourcesRef)
  /\ pendingDecode' = [i \in DOMAIN pendingDecode |-> [pendingDecode[i] EXCEPT !.cut = TRUE]]
  /\ isCallActive' = FALSE
  /\ isConnecting' = FALSE
  /\ UNCHANGED acquired

\* ------------------------------------------------------ handleStartCall
HandleStartCall ==
  /\ TaskBoundary /\ mounted
  /\ ~isCallActive /\ ~isConnecting      \* the Start button is shown and enabled
  /\ calls < MaxCalls
  /\ calls' = calls + 1
  /\ isConnecting' = TRUE
  /\ transcripts' = <<>>
  /\ currentInputTranscription' = ""
  /\ currentOutputTranscription' = ""
  /\ pc' = [pc EXCEPT ![calls + 1] = "getUserMedia"]
  /\ closureInput' = [closureInput EXCEPT ![calls + 1] = currentInputTranscription]
  /\ closureOutput' = [closureOutput EXCEPT ![calls + 1] = currentOutputTranscription]
  /\ ev' = Event("handleStartCall", calls + 1)
  /\ UNCHANGED <<isCallActive, refVars, playVars, chan, resVars, mounted, alerts, alerting, clock>>
  /\ UNCHANGED <<promiseVars, prodVars, codec>>

\* getUserMedia resolved: the rest of the try block runs.
GetUserMediaOk(k) ==
  /\ NotAlerting /\ pc[k] = "getUserMedia"
  /\ pc' = [pc EXCEPT ![k] = "done"]
  /\ localStreamRef' = k
  /\ outputAudioContextRef' = k
  /\ sessionPromiseRef' = k
  /\ chan' = [chan EXCEPT ![k] = "connecting"]
  /\ acquired' = acquired \cup {<<"stream", k>>, <<"outputCtx", k>>, <<"session", k>>}
  /\ ev' = Event("getUserMediaOk", k)
  /\ UNCHANGED <<stateVars, textVars, inputAudioContextRef, scriptProcessorRef, frameIntervalRef,
                 playVars, calls, closureInput, closureOutput, released, raised,
                 mounted, alerts, alerting, clock>>
  /\ UNCHANGED <<promiseVars, prodVars, codec>>

\* GetUserMediaFail with a catch block that alerts and does not call cleanUp.
GetUserMediaFailNoCleanUp(k) ==
  /\ NotAlerting /\ pc[k] = "getUserMedia"
  /\ pc' = [pc EXCEPT ![k] = "failed"]
  /\ alerts' = alerts + 1
  /\ ev' = Event("catch", k)
  /\ UNCHANGED <<stateVars, textVars, refVars, playVars, calls, chan, closureInput, closureOutput,
                 resVars, mounted, alerting, clock>>
  /\ UNCHANGED <<promiseVars, prodVars, codec>>

\* getUserMedia rejected: the catch block alerts ...
GetUserMediaFail(k) ==
  /\ NotAlerting /\ pc[k] = "getUserMedia"
  /\ pc' = [pc EXCEPT ![k] = "failed"]
  /\ alerts' = alerts + 1
  /\ alerting' = "catch"
  /\ ev' = Event("catch", k)
  /\ UNCHANGED <<stateVars, textVars, refVars, playVars, calls, chan, closureInput, closureOutput,
                 resVars, mounted, clock>>
  /\ UNCHANGED <<promiseVars, prodVars, codec>>

\* getUserMedia resolved, and a later statement of the try block threw (the
\* AudioContext or the GoogleGenAI constructor): the same catch block runs.
ConnectThrows(k) ==
  /\ NotAlerting /\ pc[k] = "getUserMedia"
  /\ pc' = [pc EXCEPT ![k] = "threw"]
  /\ localStreamRef' = k
  /\ outputAudioContextRef' = k
  /\ acquired' = acquired \cup {<<"stream", k>>, <<"outputCtx", k>>}
  /\ alerts' = alerts + 1
  /\ alerting' = "catch"
  /\ ev' = Event("catchAfterAcquire", k)
  /\ UNCHANGED <<stateVars, textVars, sessionPromiseRef, inputAudioContextRef, scriptProcessorRef,
                 frameIntervalRef, playVars, calls, chan, closureInput, closureOutput,
                 released, raised, mounted, clock>>
  /\ UNCHANGED <<promiseVars, prodVars, codec>>

\* ... and an alerting handler (the catch block, onerror) then calls cleanUp.
AfterAlert ==
  /\ alerting # "none"
  /\ alerting' = "none"
  /\ CleanUp
  /\ ev' = Event(IF alerting = "onerror" THEN "onerrorCleanUp" ELSE "catchCleanUp", ev.call)
  /\ UNCHANGED <<textVars, chunks, dropped, callVars, mounted, alerts, clock>>
  /\ UNCHANGED <<prodVars, codec>>

\* ------------------------------------------------ the session's callbacks
OnOpen(k) ==
  /\ TaskBoundary /\ chan[k] = "connecting"
  /\ chan' = [chan EXCEPT ![k] = "open"]
  /\ inputAudioContextRef' = k
  /\ scriptProcessorRef' = k
  /\ frameIntervalRef' = IF mounted THEN k ELSE frameIntervalRef   \* if (localVideoRef.current)
  /\ acquired' = acquired \cup {<<"inputCtx", k>>, <<"processor", k>>}
                          \cup (IF mounted THEN {<<"interval", k>>} ELSE {})
  /\ isConnecting' = FALSE
  /\ isCallActive' = TRUE
  /\ ev' = Event("onopen", k)
  /\ UNCHANGED <<textVars, localStreamRef, sessionPromiseRef, outputAudioContextRef, playVars,
                 calls, pc, closureInput, closureOutput, released, raised,
                 mounted, alerts, alerting, clock>>
  /\ UNCHANGED <<promiseVars, prodVars, codec>>

\* OnError with cleanUp called before alert.
OnErrorCleanUpFirst(k) ==
  /\ TaskBoundary /\ chan[k] \in {"connecting", "open"}
  /\ chan' = [chan EXCEPT ![k] = "errored"]
  /\ CleanUp
  /\ alerts' = alerts + 1
  /\ alerting' = "onerror"
  /\ ev' = Event("onerror", k)
  /\ UNCHANGED <<textVars, chunks, dropped, calls, pc, closureInput, closureOutput, mounted, clock>>
  /\ UNCHANGED <<prodVars, codec>>

OnError(k) ==
  /\ TaskBoundary /\ chan[k] \in {"connecting", "open"}
  /\ chan' = [chan EXCEPT ![k] = "errored"]
  /\ alerts' = alerts + 1
  /\ alerting' = "onerror"
  /\ ev' = Event("onerror", k)
  /\ UNCHANGED <<stateVars, textVars, refVars, playVars, calls, pc, closureInput, closureOutput,
                 resVars, mounted, clock>>
  /\ UNCHANGED <<promiseVars, prodVars, codec>>

OnClose(k) ==
  /\ TaskBoundary /\ chan[k] \in {"connecting", "open", "errored"}
  /\ chan' = [chan EXCEPT ![k] = "closed"]
  /\ CleanUp
  /\ ev' = Event("onclose", k)
  /\ UNCHANGED <<textVars, chunks, dropped, calls, pc, closureInput, closureOutput,
                 mounted, alerts, alerting, clock>>
  /\ UNCHANGED <<prodVars, codec>>

\* The connect promise rejects and the channel delivers no callback.
ConnectReject(k) ==
  /\ TaskBoundary /\ chan[k] = "connecting"
  /\ chan' = [chan EXCEPT ![k] = "closed"]
  /\ ev' = Event("connectReject", k)
  /\ UNCHANGED <<stateVars, textVars, refVars, playVars, calls, pc, closureInput, closureOutput,
                 resVars, mounted, alerts, alerting, clock>>
  /\ UNCHANGED <<promiseVars, prodVars, codec>>

\* ------------------------------------------------- End Call and unmount
HandleEndCall ==
  /\ TaskBoundary /\ mounted /\ isCallActive     \* the End button is shown
  /\ CleanUp
  /\ ev' = Event("handleEndCall", 0)
  /\ UNCHANGED <<textVars, chunks, dropped, callVars, mounted, alerts, alerting, clock>>
  /\ UNCHANGED <<prodVars, codec>>

Unmount ==
  /\ TaskBoundary /\ mounted
  /\ mounted' = FALSE
  /\ CleanUp
  /\ ev' = Event("unmount", 0)
  /\ UNCHANGED <<textVars, chunks, dropped, callVars, alerts, alerting, clock>>
  /\ UNCHANGED <<prodVars, codec>>

\* ------------------------------------------------------------ onmessage
\* DecodeAudioData that truncates a trailing odd byte instead of rejecting.
DecodeTruncates(bytes, numChannels) == (bytes \div BytesPerSample) \div numChannels

\* new Int16Array(data.buffer) throws RangeError unless the byte length is a
\* multiple of 2; otherwise the buffer has dataInt16.length / numChannels
\* frames.  -1 stands for the rejection.
DecodeAudioData(bytes, numChannels) ==
  IF bytes % BytesPerSample # 0 THEN -1 ELSE (bytes \div BytesPerSample) \div numChannels

CutPending(q) == [i \in DOMAIN q |-> [q[i] EXCEPT !.cut = TRUE]]

\* Clamp that takes the device clock whatever the cursor is.
ClampToNow(cursor, now) == now

\* nextStartTimeRef.current = Math.max(nextStartTimeRef.current, audioCtx.currentTime)
Clamp(cursor, now) == Max(cursor, now)

\* An interruption that stops the sources and leaves them in the set.
InterruptedKeepsSources(sources, cursor) == [sources |-> sources, cursor |-> 0]

\* if (message.serverContent?.interrupted) { ... }
Interrupted(sources, cursor) == [sources |-> {}, cursor |-> 0]

\* Transcribe that finalizes only the turns whose text is not empty.
TranscribeSkipsEmpty(k, m) ==
  /\ currentInputTranscription' =
       IF m.turnComplete THEN "" ELSE currentInputTranscription \o m.input
  /\ currentOutputTranscription' =
       IF m.turnComplete THEN "" ELSE currentOutputTranscription \o m.output
  /\ transcripts' =
       IF m.turnComplete
       THEN transcripts
            \o (IF closureInput[k] \o m.input = "" THEN <<>>
                ELSE <<[speaker |-> "user", text |-> closureInput[k] \o m.input]>>)
            \o (IF closureOutput[k] \o m.output = "" THEN <<>>
                ELSE <<[speaker |-> "model", text |-> closureOutput[k] \o m.output]>>)
       ELSE transcripts

\* Transcribe in which a fragment that arrives after a turn-complete is
\* appended to the user turn finalized last.
TranscribeEditsLastTurn(k, m) ==
  /\ currentInputTranscription' =
       IF m.turnComplete THEN "" ELSE currentInputTranscription \o m.input
  /\ currentOutputTranscription' =
       IF m.turnComplete THEN "" ELSE currentOutputTranscription \o m.output
  /\ transcripts' =
       IF m.turnComplete
       THEN transcripts \o <<[speaker |-> "user", text |-> closureInput[k] \o m.input],
                             [speaker |-> "model", text |-> closureOutput[k] \o m.output]>>
       ELSE IF Len(transcripts) >= 2
       THEN [transcripts EXCEPT ![Len(transcripts) - 1].text = @ \o m.input]
       ELSE transcripts

\* The transcription part of onmessage: lines 269-282.
Transcribe(k, m) ==
  /\ currentInputTranscription' =
       IF m.turnComplete THEN "" ELSE currentInputTranscription \o m.input
  /\ currentOutputTranscription' =
       IF m.turnComplete THEN "" ELSE currentOutputTranscription \o m.output
  /\ transcripts' =
       IF m.turnComplete
       THEN transcripts \o <<[speaker |-> "user", text |-> closureInput[k] \o m.input],
                             [speaker |-> "model", text |-> closureOutput[k] \o m.output]>>
       ELSE transcripts

OnMessage(k, m) ==
  /\ NotAlerting /\ chan[k] = "open"
  /\ Len(currentInputTranscription \o m.input) <= MaxText
  /\ Len(currentOutputTranscription \o m.output) <= MaxText
  /\ m.turnComplete => Len(transcripts) + 2 <= MaxTurns
  /\ m.audio # 0 => chunks < MaxChunks
  /\ Transcribe(k, m)
  /\ chunks' = IF m.audio # 0 THEN chunks + 1 ELSE chunks
  /\ IF m.audio # 0 /\ outputAudioContextRef # 0
     THEN \* the handler runs up to `await decodeAudioData(...)`
          /\ nextStartTimeRef' = Clamp(nextStartTimeRef, clock[outputAudioContextRef])
          /\ pendingDecode' = Append(pendingDecode,
               [id |-> chunks + 1, session |-> k, ctx |-> outputAudioContextRef,
                bytes |-> m.audio, interrupted |-> m.interrupted,
                now |-> clock[outputAudioContextRef], cut |-> FALSE])
          /\ srcLife' = [srcLife EXCEPT ![chunks + 1] = "decoding"]
          /\ UNCHANGED <<audioSourcesRef, schedLog>>
     ELSE /\ IF m.interrupted
             THEN /\ audioSourcesRef' = Interrupted(audioSourcesRef, nextStartTimeRef).sources
                  /\ nextStartTimeRef' = Interrupted(audioSourcesRef, nextStartTimeRef).cursor
                  /\ schedLog' = <<>>
                  /\ pendingDecode' = CutPending(pendingDecode)
             ELSE UNCHANGED <<audioSourcesRef, nextStartTimeRef, schedLog, pendingDecode>>
          /\ srcLife' =
               LET life == IF m.interrupted THEN StopAll(srcLife, audioSourcesRef) ELSE srcLife
               IN IF m.audio # 0 THEN [life EXCEPT ![chunks + 1] = "unplayable"] ELSE life
  /\ dropped' = dropped
  /\ ev' = MessageEvent(IF m.interrupted /\ ~(m.audio # 0 /\ outputAudioContextRef # 0)
                        THEN "interrupted" ELSE "onmessage", k,
                        IF m.audio # 0 THEN chunks + 1 ELSE 0, m)
  /\ UNCHANGED <<stateVars, refVars, callVars, resVars, mounted, alerts, alerting, clock>>
  /\ UNCHANGED <<promiseVars, prodVars, codec>>

\* The oldest suspended handler resumes after `await decodeAudioData(...)`:
\* lines 289-302.
ResumeDecode ==
  /\ NotAlerting /\ pendingDecode # <<>>
  /\ LET h == Head(pendingDecode)
         frames == DecodeAudioData(h.bytes, NumChannels)
         \* source.start(when) begins at once when `when` is already past;
         \* stale: the handler was suspended across an interruption or a cleanUp
         source == [id |-> h.id, ctx |-> h.ctx, bytes |-> h.bytes, start |-> nextStartTimeRef,
                    began |-> Max(nextStartTimeRef, clock[h.ctx]),
                    dur |-> frames, started |-> TRUE, stale |-> h.cut]
         added == [sources |-> audioSourcesRef \cup {source},
                   cursor |-> nextStartTimeRef + frames]
         after == IF h.interrupted THEN Interrupted(added.sources, added.cursor) ELSE added
     IN IF frames < 0
        THEN \* the await throws: the handler's promise rejects, the rest is skipped
             /\ pendingDecode' = Tail(pendingDecode)
             /\ dropped' = dropped \cup {h.id}
             /\ srcLife' = [srcLife EXCEPT ![h.id] = "rejected"]
             /\ ev' = ChunkEvent("decodeRejected", h.session, h.id)
             /\ UNCHANGED <<audioSourcesRef, nextStartTimeRef, schedLog>>
        ELSE /\ audioSourcesRef' = after.sources
             /\ nextStartTimeRef' = after.cursor
             /\ schedLog' = IF h.interrupted THEN <<>>
                            ELSE IF h.cut THEN schedLog
                            ELSE Append(schedLog, [start |-> source.start, dur |-> frames, now |-> h.now])
             /\ pendingDecode' = IF h.interrupted THEN CutPending(Tail(pendingDecode))
                                 ELSE Tail(pendingDecode)
             /\ dropped' = dropped
             /\ srcLife' =
                  LET life == [srcLife EXCEPT
                                 ![h.id] = IF @ = "decoding" THEN "playing" ELSE "again"]
                  IN IF h.interrupted THEN StopAll(life, added.sources) ELSE life
             /\ ev' = ChunkEvent(IF h.interrupted THEN "startInterrupted" ELSE "start",
                                 h.session, h.id)
  /\ UNCHANGED <<stateVars, textVars, refVars, chunks, callVars, resVars,
                 mounted, alerts, alerting, clock>>
  /\ UNCHANGED <<promiseVars, prodVars, codec>>

\* ------------------------------------------------------- the output device
Running(k) == <<"outputCtx", k>> \in acquired /\ released[<<"outputCtx", k>>] = 0

Tick(k) ==
  /\ TaskBoundary /\ Running(k) /\ clock[k] < MaxClock
  /\ clock' = [clock EXCEPT ![k] = clock[k] + 1]
  /\ ev' = Event("tick", k)
  /\ UNCHANGED <<stateVars, textVars, refVars, playVars, callVars, resVars,
                 mounted, alerts, alerting>>
  /\ UNCHANGED <<promiseVars, prodVars, codec>>

\* source.addEventListener('ended', () => audioSourcesRef.current.delete(source))
OnEnded(s) ==
  /\ TaskBoundary /\ s \in audioSourcesRef
  /\ Running(s.ctx) /\ clock[s.ctx] >= s.began + s.dur
  /\ audioSourcesRef' = audioSourcesRef \ {s}
  /\ srcLife' = [srcLife EXCEPT ![s.id] = "done"]
  /\ ev' = ChunkEvent("ended", s.ctx, s.id)
  /\ UNCHANGED <<stateVars, textVars, refVars, nextStartTimeRef, pendingDecode, schedLog, chunks,
                 dropped, callVars, resVars, mounted, alerts, alerting, clock>>
  /\ UNCHANGED <<promiseVars, prodVars, codec>>

\* -------------------------------------------------------- the producers
SendOp(kind, k, n) == [op |-> "send", kind |-> kind, call |-> k, n |-> n]

Attached(kind, k) == <<kind, k>> \in acquired /\ released[<<kind, k>>] = 0

\* The promise returned by ai.live.connect resolves with the session: the
\* callbacks waiting on it run in the order they were added.
SessionResolves(k) ==
  /\ NotAlerting /\ chan[k] = "open" /\ k \notin resolved
  /\ resolved' = resolved \cup {k}
  /\ sessionLog' = [sessionLog EXCEPT ![k] = @ \o reactions[k]]
  /\ reactions' = [reactions EXCEPT ![k] = <<>>]
  /\ ev' = Event("sessionResolves", k)
  /\ UNCHANGED <<stateVars, textVars, refVars, playVars, callVars, resVars,
                 inflight, captured, sendRaised, codec, mounted, alerts, alerting, clock>>

\* scriptProcessorRef.current.onaudioprocess of call k: lines 227-235.
OnAudioProcess(k) ==
  /\ TaskBoundary /\ Attached("processor", k) /\ captured.audio < MaxFrames
  /\ captured' = [captured EXCEPT !.audio = @ + 1]
  /\ LET after == Then(sessionPromiseRef, SendOp("audio", k, captured.audio + 1))
     IN IF sessionPromiseRef # 0
        THEN reactions' = after.reactions /\ sessionLog' = after.sessionLog
        ELSE UNCHANGED promiseVars
  /\ ev' = Event("onaudioprocess", k)
  /\ UNCHANGED <<stateVars, textVars, refVars, playVars, callVars, resVars,
                 resolved, inflight, sendRaised, codec, mounted, alerts, alerting, clock>>

\* The frame timer of call k fires (the video has data): lines 245-250.
FrameTick(k) ==
  /\ TaskBoundary /\ Attached("interval", k) /\ captured.video < MaxFrames
  /\ captured' = [captured EXCEPT !.video = @ + 1]
  /\ inflight' = inflight \cup {[call |-> k, n |-> captured.video + 1, stage |-> "toBlob"]}
  /\ ev' = Event("frameTick", k)
  /\ UNCHANGED <<stateVars, textVars, refVars, playVars, callVars, resVars,
                 promiseVars, resolved, sendRaised, codec, mounted, alerts, alerting, clock>>

\* canvasEl.toBlob calls back with the compressed frame f: lines 251-253.
ToBlobDone(f) ==
  /\ TaskBoundary /\ f \in inflight /\ f.stage = "toBlob"
  /\ inflight' = IF sessionPromiseRef # 0
                 THEN (inflight \ {f}) \cup {[f EXCEPT !.stage = "base64"]}
                 ELSE inflight \ {f}
  /\ ev' = ChunkEvent("toBlobDone", f.call, f.n)
  /\ UNCHANGED <<stateVars, textVars, refVars, playVars, callVars, resVars,
                 promiseVars, resolved, captured, sendRaised, codec,
                 mounted, alerts, alerting, clock>>

\* blobToBase64 resolves for frame f and the callback goes on: lines 253-256.
\* sessionPromiseRef.current is read again; .then on null throws TypeError.
Base64Done(f) ==
  /\ TaskBoundary /\ f \in inflight /\ f.stage = "base64"
  /\ inflight' = inflight \ {f}
  /\ LET after == Then(sessionPromiseRef, SendOp("video", f.call, f.n))
     IN IF sessionPromiseRef # 0
        THEN reactions' = after.reactions /\ sessionLog' = after.sessionLog
             /\ UNCHANGED sendRaised
        ELSE sendRaised' = TRUE /\ UNCHANGED promiseVars
  /\ ev' = ChunkEvent("base64Done", f.call, f.n)
  /\ UNCHANGED <<stateVars, textVars, refVars, playVars, callVars, resVars,
                 resolved, captured, codec, mounted, alerts, alerting, clock>>

\* ------------------------------------------------------------ the codec
\* A sample x is held as the integer x * FullScale * SubSteps, so x * 32768 is
\* data / SubSteps; a decoded sample y is held as y * FullScale.

\* Storing a number in an Int16Array: truncate toward zero, wrap modulo 2^16
\* and read the 16 bits as two's complement.
ToInt16(num, den) ==
  LET t == IF num >= 0 THEN num \div den ELSE -((-num) \div den)
      w == t % 65536
  IN IF w >= 32768 THEN w - 65536 ELSE w

\* new Uint8Array(int16.buffer): the two bytes of each element, low byte first.
Int16Bytes(q) == LET w == q % 65536 IN <<w % 256, w \div 256>>

RECURSIVE Flatten(_)
Flatten(ss) == IF ss = <<>> THEN <<>> ELSE Head(ss) \o Flatten(Tail(ss))

\* btoa over the bytes: three bytes give four symbols, '=' fills the last group.
RECURSIVE Encode(_)
Encode(bytes) ==
  IF Len(bytes) = 0 THEN <<>>
  ELSE IF Len(bytes) = 1
  THEN <<bytes[1] \div 4, (bytes[1] % 4) * 16, Pad, Pad>>
  ELSE IF Len(bytes) = 2
  THEN <<bytes[1] \div 4, (bytes[1] % 4) * 16 + bytes[2] \div 16, (bytes[2] % 16) * 4, Pad>>
  ELSE <<bytes[1] \div 4, (bytes[1] % 4) * 16 + bytes[2] \div 16,
         (bytes[2] % 16) * 4 + bytes[3] \div 64, bytes[3] % 64>>
       \o Encode(SubSeq(bytes, 4, Len(bytes)))

\* atob, then the char code of each character.
RECURSIVE Decode(_)
Decode(base64) ==
  IF Len(base64) < 4 THEN <<>>
  ELSE LET c == SubSeq(base64, 1, 4)
           b1 == c[1] * 4 + c[2] \div 16
           b2 == (c[2] % 16) * 16 + c[3] \div 4
           b3 == (c[3] % 4) * 64 + c[4]
       IN IF c[3] = Pad THEN <<b1>>
          ELSE IF c[4] = Pad THEN <<b1, b2>>
          ELSE <<b1, b2, b3>> \o Decode(SubSeq(base64, 5, Len(base64)))

\* createBlob(data).data
CreateBlob(data) ==
  Encode(Flatten([i \in DOMAIN data |-> Int16Bytes(ToInt16(data[i], SubSteps))]))

\* The channel data decodeAudioData fills (one channel), times FullScale.
ChannelData(bytes) ==
  [i \in 1..(Len(bytes) \div BytesPerSample) |->
     LET w == bytes[2 * i - 1] + 256 * bytes[2 * i]
     IN IF w >= 32768 THEN w - 65536 ELSE w]

\* createBlob -> encode -> decode -> decodeAudioData on one block of samples.
SampleRoundTrip ==
  /\ codec.kind = "samples" /\ ~codec.ran
  /\ codec' = [codec EXCEPT !.ran = TRUE,
                            !.channelData = ChannelData(Decode(CreateBlob(codec.data)))]
  /\ UNCHANGED <<stateVars, textVars, refVars, playVars, callVars, resVars,
                 promiseVars, prodVars, mounted, alerts, alerting, clock, ev>>

\* decode(encode(bytes))
ByteRoundTrip ==
  /\ codec.kind = "bytes" /\ ~codec.ran
  /\ codec' = [codec EXCEPT !.ran = TRUE, !.back = Decode(Encode(codec.bytes))]
  /\ UNCHANGED <<stateVars, textVars, refVars, playVars, callVars, resVars,
                 promiseVars, prodVars, mounted, alerts, alerting, clock, ev>>

\* ------------------------------------------------------ specifications
\* Each specification draws the handlers' inputs from the sets its claims
\* are about; the handlers themselves are the same in all of them.
Fragments == {"", "he", "llo"}
Replies == {"", "Hi"}
AudioLengths == {0, 1, 2, 4}     \* bytes: none, malformed, one frame, two frames

TextMessages ==
  {Message(i, o, t, 0, FALSE) : i \in Fragments, o \in Replies, t \in BOOLEAN} \ {NoMessage}

AudioMessages ==
  {Message("", "", FALSE, a, x) : a \in AudioLengths, x \in BOOLEAN} \ {NoMessage}

\* Every event of a call's life, for up to MaxCalls calls.
NextLife ==
  \/ HandleStartCall
  \/ \E k \in Calls : GetUserMediaOk(k)
  \/ \E k \in Calls : GetUserMediaFail(k)
  \/ \E k \in Calls : ConnectThrows(k)
  \/ AfterAlert
  \/ \E k \in Calls : OnOpen(k)
  \/ \E k \in Calls : OnError(k)
  \/ \E k \in Calls : OnClose(k)
  \/ \E k \in Calls : ConnectReject(k)
  \/ HandleEndCall
  \/ Unmount

SpecLife == Init /\ [][NextLife]_vars

\* getUserMedia settles: it resolves (and the try block runs or throws) or it
\* rejects.
DeviceSettles ==
  \E k \in Calls : GetUserMediaOk(k) \/ GetUserMediaFail(k) \/ ConnectThrows(k)

\* The connect attempt of a session settles: it opens, or it fails with an
\* error callback, a close callback or a rejected promise only.
ConnectSettles ==
  \E k \in Calls :
    chan[k] = "connecting" /\ (OnOpen(k) \/ OnError(k) \/ OnClose(k) \/ ConnectReject(k))

\* The life of the calls when every pending getUserMedia and every pending
\* connect settles and every alert returns; the user's clicks and the unmount
\* may never come.
SpecLifeFair ==
  /\ SpecLife
  /\ WF_vars(DeviceSettles)
  /\ WF_vars(ConnectSettles)
  /\ WF_vars(AfterAlert)

\* Calls that open, receive messages and end.
OpenAndEnd(n) ==
  \/ calls < n /\ HandleStartCall
  \/ \E k \in Calls : GetUserMediaOk(k)
  \/ \E k \in Calls : OnOpen(k)
  \/ \E k \in Calls : OnClose(k)
  \/ HandleEndCall

\* Inbound audio and interruptions, with the output device running.
NextPlay ==
  \/ OpenAndEnd(MaxPlayCalls)
  \/ \E k \in Calls, m \in AudioMessages : OnMessage(k, m)
  \/ ResumeDecode
  \/ \E k \in Calls : Tick(k)
  \/ \E s \in audioSourcesRef : OnEnded(s)

SpecPlay == Init /\ [][NextPlay]_vars

\* Inbound transcription fragments and turn-complete signals.
NextText ==
  \/ OpenAndEnd(MaxTextCalls)
  \/ \E k \in Calls, m \in TextMessages : OnMessage(k, m)

SpecText == Init /\ [][NextText]_vars

\* Every event that can reach a call with a history: fragments, turn-complete
\* signals, interruptions, End Call, a close, an error.
HistoryMessages ==
  ({Message(i, o, t, 0, FALSE) : i \in {"", "he"}, o \in Replies, t \in BOOLEAN}
     \cup {Message("", "", FALSE, 0, TRUE)}) \ {NoMessage}

NextHistory ==
  \/ OpenAndEnd(MaxTextCalls)
  \/ \E k \in Calls : OnError(k)
  \/ AfterAlert
  \/ \E k \in Calls, m \in HistoryMessages : OnMessage(k, m)

SpecHistory == Init /\ [][NextHistory]_vars

\* Transcription messages over successive calls: what one call leaves pending
\* is there when the next one starts.
NextCarry ==
  \/ OpenAndEnd(MaxCarryCalls)
  \/ \E k \in Calls, m \in TextMessages : OnMessage(k, m)

SpecCarry == Init /\ [][NextCarry]_vars

\* The capture callbacks and the deferred sends, over successive calls.
NextSend ==
  \/ OpenAndEnd(MaxSendCalls)
  \/ \E k \in Calls : SessionResolves(k)
  \/ \E k \in Calls : OnAudioProcess(k)
  \/ \E k \in Calls : FrameTick(k)
  \/ \E f \in inflight : ToBlobDone(f)
  \/ \E f \in inflight : Base64Done(f)

SpecSend == Init /\ [][NextSend]_vars

\* The codec on every sample of [-1, 1] at SubSteps values per 16-bit level,
\* and on every sequence of up to MaxBytes of the bytes below.
Samples == (-FullScale * SubSteps)..(FullScale * SubSteps)
ByteValues == {0, 1, 127, 128, 255}

RECURSIVE SeqsUpTo(_, _)
SeqsUpTo(S, n) ==
  IF n = 0 THEN {<<>>}
  ELSE SeqsUpTo(S, n - 1) \cup {Append(q, x) : q \in {p \in SeqsUpTo(S, n - 1) : Len(p) = n - 1}, x \in S}

InitCodec ==
  /\ InitApp
  /\ \/ \E x \in Samples : codec = CodecRun("samples", <<x>>, <<>>)
     \/ \E b \in SeqsUpTo(ByteValues, MaxBytes) : codec = CodecRun("bytes", <<>>, b)

NextCodec ==
  \/ SampleRoundTrip
  \/ ByteRoundTrip

SpecCodec == InitCodec /\ [][NextCodec]_vars

\* ------------------------------------------------------------- claims
RefsAllNull ==
  /\ localStreamRef = 0 /\ sessionPromiseRef = 0 /\ inputAudioContextRef = 0
  /\ outputAudioContextRef = 0 /\ scriptProcessorRef = 0 /\ frameIntervalRef = 0

TeardownOps == {"onclose", "handleEndCall", "unmount", "onerrorCleanUp", "catchCleanUp"}

\* C1: whatever teardown triggers have run, in whatever order and however
\* often, no cleanUp raised, no resource was released twice, and once a
\* teardown has run every resource acquired so far has been released once.
C1_ReleasedExactlyOnce ==
  /\ ~raised
  /\ \A r \in Kinds \X Calls : released[r] <= 1
  /\ ev.op \in TeardownOps => \A r \in acquired : released[r] = 1

\* C6: when the machine is neither connecting nor open, no call resource is
\* held, the active playback set is empty and the cursor is reset.
C6_IdleHoldsNothing ==
  (~isConnecting /\ ~isCallActive) =>
     (RefsAllNull /\ audioSourcesRef = {} /\ nextStartTimeRef = 0)

\* C7: the machine is never connecting and open at once; it becomes
\* connecting only by a start request made when idle; it becomes open, and
\* the capture processor and frame timer are attached, only in the open
\* callback and only when the machine is connecting.
C7_Step ==
  /\ ~(isConnecting' /\ isCallActive')
  /\ (isConnecting' /\ ~isConnecting) => (ev'.op = "handleStartCall" /\ ~isCallActive)
  /\ (isCallActive' /\ ~isCallActive) => (ev'.op = "onopen" /\ isConnecting)
  /\ (scriptProcessorRef' \notin {0, scriptProcessorRef}
        \/ frameIntervalRef' \notin {0, frameIntervalRef}) => (ev'.op = "onopen" /\ isConnecting)

C7_LifecycleTransitions == [][C7_Step]_vars

\* C8: the error callback raises the notice with nothing torn down yet; the
\* next thing to run is the full teardown, which leaves the machine neither
\* connecting nor open; neither step starts a call or opens a channel.
C8_Step ==
  /\ ev'.op = "onerror" =>
       /\ alerts' = alerts + 1
       /\ UNCHANGED <<stateVars, refVars, released, audioSourcesRef, nextStartTimeRef>>
       /\ calls' = calls /\ pc' = pc
       /\ \A k \in Calls : chan'[k] = "connecting" => chan[k] = "connecting"
  /\ alerting = "onerror" =>
       /\ ev'.op = "onerrorCleanUp"
       /\ RefsAllNull' /\ audioSourcesRef' = {} /\ nextStartTimeRef' = 0
       /\ released' = ReleasedByCleanUp
       /\ ~isConnecting' /\ ~isCallActive'
       /\ alerts' = alerts
       /\ calls' = calls /\ pc' = pc /\ chan' = chan

C8_ErrorNoticeThenTeardown == [][C8_Step]_vars

C8_Witness ==
  /\ ev.op = "onerrorCleanUp"
  /\ chan[ev.call] = "errored"
  /\ released[<<"stream", ev.call>>] = 1 /\ released[<<"inputCtx", ev.call>>] = 1
  /\ alerts = 1

\* C9: when getUserMedia fails the notice is raised, the call never gets a
\* channel, and the teardown that follows leaves the machine neither
\* connecting nor open with nothing held; no new start is made.
C9_Step ==
  /\ ev'.op = "catch" =>
       /\ alerts' = alerts + 1
       /\ alerting' = "catch"
       /\ calls' = calls
  /\ (alerting = "catch" /\ ev.op = "catch") =>
       /\ ev'.op = "catchCleanUp"
       /\ RefsAllNull' /\ audioSourcesRef' = {} /\ nextStartTimeRef' = 0
       /\ released' = ReleasedByCleanUp
       /\ ~isConnecting' /\ ~isCallActive'
       /\ calls' = calls /\ pc' = pc /\ chan' = chan
  /\ \A k \in Calls : pc'[k] = "failed" =>
       (chan'[k] = "none" /\ \A kind \in Kinds : <<kind, k>> \notin acquired')

C9_DeviceFailure == [][C9_Step]_vars

C9_Witness ==
  /\ ev.op = "catchCleanUp" /\ pc[ev.call] = "failed"
  /\ ev.call = 2 /\ released[<<"stream", 1>>] = 1
  /\ ~isConnecting /\ ~isCallActive /\ alerts >= 1

EndOf(entry) == entry.start + entry.dur

\* C2: of two chunks scheduled one after the other with no interruption or
\* teardown between them, the later starts exactly at the larger of the
\* earlier one's end and the device clock read when the later was handled:
\* never before the earlier one has ended, never later than that.
C2_BackToBack ==
  \A i \in 2..Len(schedLog) :
     /\ schedLog[i].start >= EndOf(schedLog[i - 1])
     /\ schedLog[i].start = Max(EndOf(schedLog[i - 1]), schedLog[i].now)

C2_Witness ==
  /\ Len(schedLog) = 2
  /\ schedLog[2].now < EndOf(schedLog[1])
  /\ schedLog[2].now > schedLog[1].now
  /\ schedLog[2].start = EndOf(schedLog[1])

\* C3: after an interruption has been handled the active set is empty and the
\* cursor is not behind the output device's clock.
C3_InterruptionResets ==
  ev.op \in {"interrupted", "startInterrupted"} =>
     /\ audioSourcesRef = {}
     /\ outputAudioContextRef # 0 => nextStartTimeRef >= clock[outputAudioContextRef]

\* C10: no chunk whose byte length is not a multiple of 2 x channelCount ever
\* becomes a source; dropping it changes neither the active set, the cursor,
\* the lifecycle state nor any resource; and every valid chunk, those after
\* a dropped one included, is started at the cursor and added to the set.
C10_NoMalformedSource ==
  \A s \in audioSourcesRef : s.bytes % (BytesPerSample * NumChannels) = 0 /\ s.id \notin dropped

C10_Step ==
  /\ ev'.op = "decodeRejected" =>
       /\ ev'.id \in dropped'
       /\ UNCHANGED <<audioSourcesRef, nextStartTimeRef, schedLog, stateVars, refVars, released, chan>>
  /\ ev'.op = "start" =>
       \E s \in audioSourcesRef' \ audioSourcesRef :
          /\ s.id = ev'.id
          /\ s.start = nextStartTimeRef
          /\ nextStartTimeRef' = s.start + s.dur
          /\ audioSourcesRef' = audioSourcesRef \cup {s}

C10_MalformedDropped == [](C10_NoMalformedSource) /\ [][C10_Step]_vars

C10_Witness ==
  /\ ev.op = "start" /\ ev.id = 2 /\ 1 \in dropped
  /\ isCallActive /\ outputAudioContextRef # 0
  /\ \E s \in audioSourcesRef : s.id = 2

TurnComplete(e) == e.op \in {"onmessage", "interrupted"} /\ e.msg.turnComplete

\* C4: a turn-complete signal finalizes, for each speaker, the text pending
\* since the previous turn-complete (or the call's start) followed by the
\* fragment the signal's own event carries.
C4_Step ==
  TurnComplete(ev') =>
     transcripts' = transcripts \o
        <<[speaker |-> "user", text |-> currentInputTranscription \o ev'.msg.input],
          [speaker |-> "model", text |-> currentOutputTranscription \o ev'.msg.output]>>

C4_TurnTextIsConcatenation == [][C4_Step]_vars

\* C5: a turn-complete signal appends exactly two turns, user then model,
\* whatever the pending buffers hold, keeps the earlier turns, and leaves both
\* pending buffers empty.
C5_Step ==
  TurnComplete(ev') =>
     /\ Len(transcripts') = Len(transcripts) + 2
     /\ SubSeq(transcripts', 1, Len(transcripts)) = transcripts
     /\ transcripts'[Len(transcripts) + 1].speaker = "user"
     /\ transcripts'[Len(transcripts) + 2].speaker = "model"
     /\ currentInputTranscription' = "" /\ currentOutputTranscription' = ""

C5_TwoTurnsPerTurnComplete == [][C5_Step]_vars

C5_Witness ==
  /\ TurnComplete(ev)
  /\ Len(transcripts) = 2
  /\ transcripts[1] = [speaker |-> "user", text |-> ""]
  /\ transcripts[2] = [speaker |-> "model", text |-> "Hi"]
  /\ currentInputTranscription = "" /\ currentOutputTranscription = ""

MessageOps == {"onmessage", "interrupted", "start", "startInterrupted", "decodeRejected"}

\* C11: no step of a message handler (an audio chunk's or an interruption's)
\* leaves the cursor lower than it found it.
C11_Step == ev'.op \in MessageOps => nextStartTimeRef' >= nextStartTimeRef

C11_CursorNeverDecreases == [][C11_Step]_vars

\* C12: whenever a source is started, the start time it is given, the cursor,
\* is not behind the clock of the context it is started on.
C12_Step ==
  ev'.op \in {"start", "startInterrupted"} =>
     nextStartTimeRef >= clock[Head(pendingDecode).ctx]

C12_StartNotBeforeClock == [][C12_Step]_vars

IsPrefix(a, b) == Len(a) <= Len(b) /\ SubSeq(b, 1, Len(a)) = a

\* C16: every event other than the start of a new call leaves the turn
\* history with the history before it as a prefix.
C16_Step == ev'.op # "handleStartCall" => IsPrefix(transcripts, transcripts')

C18_Step ==
  \A k \in Calls :
    (ev'.op \in {"onclose", "onerrorCleanUp"} /\ ev'.call = k) =>
       /\ \A kind \in Kinds, j \in Calls :
            j > k => released'[<<kind, j>>] = released[<<kind, j>>]
       /\ calls > k => UNCHANGED stateVars

C18_StaleCallbackIsolated == [][C18_Step]_vars

\* C19: no source in the active set comes from a handler that was suspended at
\* its decode when an interruption or a teardown was handled.
C19_NoSourceFromCutHandler == \A s \in audioSourcesRef : ~s.stale

IsSubstring(t, h) ==
  \E i \in 0..(Len(h) - Len(t)) : SubSeq(h, i + 1, i + Len(t)) = t

\* C20: a call starts with both pending buffers and the history empty, and a
\* turn finalized in a call holds only text of that call: it is a part of the
\* text pending since the call's start followed by the signal's own fragment.
C20_Step ==
  /\ ev'.op = "handleStartCall" =>
        /\ currentInputTranscription' = "" /\ currentOutputTranscription' = ""
        /\ transcripts' = <<>>
  /\ TurnComplete(ev') =>
        /\ Len(transcripts') >= 2
        /\ IsSubstring(transcripts'[Len(transcripts') - 1].text,
                       currentInputTranscription \o ev'.msg.input)
        /\ IsSubstring(transcripts'[Len(transcripts')].text,
                       currentOutputTranscription \o ev'.msg.output)

C20_TurnsHoldOnlyOwnCallText == [][C20_Step]_vars

SourcesOf(i) == {s \in audioSourcesRef : s.id = i}

HandlersOf(i) == {n \in DOMAIN pendingDecode : pendingDecode[n].id = i}

\* C17: a chunk is started at most once, and exactly once when it is valid
\* and its handler has resumed; its source is in the active set exactly while
\* it is started and neither ended nor stopped ("done").
C17_ScheduledOnceAndTracked ==
  \A i \in 1..MaxChunks :
    /\ srcLife[i] # "again"
    /\ Cardinality(SourcesOf(i)) = (IF srcLife[i] = "playing" THEN 1 ELSE 0)
    /\ Cardinality(HandlersOf(i)) = (IF srcLife[i] = "decoding" THEN 1 ELSE 0)
    /\ srcLife[i] = "rejected" <=> i \in dropped
    /\ srcLife[i] = "none" <=> i > chunks

C17_Witness ==
  /\ srcLife[1] = "done" /\ srcLife[2] = "done"
  /\ ev.op = "interrupted"
  /\ nextStartTimeRef = 0 /\ clock[1] > 0
  /\ audioSourcesRef = {}

Abs(n) == IF n >= 0 THEN n ELSE -n

\* C15: a sample of [-1, 1] comes back from createBlob -> encode -> decode ->
\* decodeAudioData within one 16-bit step (SubSteps units) of itself, and
\* decode(encode(b)) is b.
C15_RoundTrip ==
  codec.ran =>
    /\ codec.kind = "samples" =>
         /\ Len(codec.channelData) = Len(codec.data)
         /\ \A i \in DOMAIN codec.data :
              Abs(codec.data[i] - codec.channelData[i] * SubSteps) <= SubSteps
    /\ codec.kind = "bytes" => codec.back = codec.bytes

\* What has reached, or waits to reach, session k, in order.
Outbox(k) == sessionLog[k] \o reactions[k]

\* C13: no producer callback throws, a frame captured in call k is sent on no
\* session but k's, and nothing is sent on a session after its close.
C13_LateProducerHasNoEffect ==
  /\ ~sendRaised
  /\ \A k \in Calls :
       \A i \in DOMAIN Outbox(k) :
          Outbox(k)[i].op = "send" =>
             /\ Outbox(k)[i].call = k
             /\ \A j \in 1..(i - 1) : Outbox(k)[j].op # "close"

\* C14: the frames of one producer reach a session's send in the order they
\* were captured.
C14_CaptureOrder ==
  \A k \in Calls :
    \A i, j \in DOMAIN Outbox(k) :
       (/\ i < j
        /\ Outbox(k)[i].op = "send" /\ Outbox(k)[j].op = "send"
        /\ Outbox(k)[i].kind = Outbox(k)[j].kind
        /\ Outbox(k)[i].call = Outbox(k)[j].call)
       => Outbox(k)[i].n < Outbox(k)[j].n

\* C21: whenever the machine is connecting it later is not: every start
\* request ends open or back at idle.
C21_StartLeavesConnecting == isConnecting ~> ~isConnecting

====
